---- MODULE Spec2Model ----
(***************************************************************************)
(* A model of GarminClient (src/main.py): the client object, the session   *)
(* objects it creates, the SSO handshake of connect, the two fetch         *)
(* operations and the context-manager protocol.                            *)
(*                                                                         *)
(* Texts (response bodies, URLs) are sequences of atoms: an atom is a      *)
(* character or an indivisible run of characters such as "response_url".   *)
(* A query string is the sequence of its key=value parameters, a value     *)
(* being the sequence of the integer fields that "-" joins (a date is      *)
(* <<year, month, day>>, an integer is <<n>>).                             *)
(***************************************************************************)
EXTENDS Integers, Sequences, FiniteSets, TLC

VARIABLES
    username,    \* self.username
    password,    \* self.password
    session,     \* self.session: NoSession (None) or the index of a session object
    sessions,    \* the requests.Session objects created so far, by index
    scope,       \* position of the caller relative to a with-statement
    lifecycle,   \* history: how the last connect/disconnect call ended
    last         \* the last call: operation, inputs, requests issued, logs, outcome

vars == <<username, password, session, sessions, scope, lifecycle, last>>

----------------------------------------------------------------------------
(* Bounds of the model *)

\* Number of session objects a run may create (connect is disabled beyond).
MaxSessions == 2

\* Number of atoms after the head of a login body of the extraction specification.
MaxTail == 5

----------------------------------------------------------------------------
(* Program constants *)

NoSession == 0

HTTP_OK == 200

SSO_LOGIN_URL == <<"https://sso.garmin.com/sso/login">>

WEIGHT_DATE_RANGE_URL ==
    <<"https://connect.garmin.com/modern/proxy/weight-service/weight/dateRange">>

\* WELLNESS_URL.format(name)
WELLNESS_URL(name) ==
    <<"https://connect.garmin.com/modern/proxy/userstats-service/wellness/daily/", name>>

LEGACY_SESSION_URL == <<"https://connect.garmin.com/legacy/session">>

\* Python's None as a returned value; json.loads maps the text null to it.
None == [type |-> "None"]

\* An absent optional argument (start=None, end=None).
Absent == [given |-> FALSE, ord |-> 0, tod |-> 0]

----------------------------------------------------------------------------
(* datetime values: a day ordinal (days since 2023-01-01) and the time of   *)
(* day in seconds; strftime and timedelta arithmetic                        *)

IsLeap(y) == (y % 4 = 0 /\ y % 100 # 0) \/ (y % 400 = 0)

DaysInYear(y) == IF IsLeap(y) THEN 366 ELSE 365

DaysInMonth(y, m) ==
    IF m = 2 THEN (IF IsLeap(y) THEN 29 ELSE 28)
    ELSE IF m \in {4, 6, 9, 11} THEN 30 ELSE 31

RECURSIVE YearFrom(_, _)
\* the year holding day n counted from January 1st of year y, and the day in it
YearFrom(y, n) ==
    IF n < DaysInYear(y) THEN [year |-> y, rest |-> n]
    ELSE YearFrom(y + 1, n - DaysInYear(y))

RECURSIVE MonthFrom(_, _, _)
MonthFrom(y, m, n) ==
    IF n < DaysInMonth(y, m) THEN [month |-> m, day |-> n + 1]
    ELSE MonthFrom(y, m + 1, n - DaysInMonth(y, m))

\* dt.strftime('%Y-%m-%d'): the calendar fields of the day, the time dropped
strftime(dt) ==
    LET yr == YearFrom(2023, dt.ord)
        md == MonthFrom(yr.year, 1, yr.rest)
    IN  <<yr.year, md.month, md.day>>

\* dt - datetime.timedelta(days=n)
MinusDays(dt, n) == [given |-> TRUE, ord |-> dt.ord - n, tod |-> dt.tod]

\* int(time.time()) at the instant now (seconds since 2023-01-01T00:00)
EpochSeconds(now) == now.ord * 86400 + now.tod

\* a datetime argument that was supplied
At(o, t) == [given |-> TRUE, ord |-> o, tod |-> t]

----------------------------------------------------------------------------
(* urllib.parse.urlencode of a dict: its items in insertion order *)

Param(k, v) == [key |-> k, value |-> v]

RECURSIVE urlencode(_)
urlencode(items) ==
    IF items = <<>> THEN <<>>
    ELSE <<Param(Head(items)[1], Head(items)[2])>> \o urlencode(Tail(items))

----------------------------------------------------------------------------
(* Texts as sequences of atoms *)

\* the atom at position i of a text, "" past its end
AtomAt(text, i) == IF i \in 1..Len(text) THEN text[i] ELSE ""

\* \s of the regular expression
IsSpace(a) == a \in {" ", "\n", "\t"}

RECURSIVE SkipSpace(_, _)
\* \s* from position i: the first position at or after i that holds no space
SkipSpace(text, i) ==
    IF i <= Len(text) /\ IsSpace(text[i]) THEN SkipSpace(text, i + 1) ELSE i

RECURSIVE QuoteFrom(_, _)
\* [^"]* from position i: the position of the first '"' at or after i, 0 if none
QuoteFrom(text, i) ==
    IF i > Len(text) THEN 0
    ELSE IF text[i] = "\"" THEN i
    ELSE QuoteFrom(text, i + 1)

\* r'response_url\s*=\s*"(https:[^"]+)"' matched at position i: group 1 as the
\* positions [from, to] of the text, or from = 0 when there is no match at i
MatchAt(text, i) ==
    LET j == SkipSpace(text, i + 1)
        k == SkipSpace(text, j + 1)
        e == QuoteFrom(text, k + 2)
    IN  IF /\ AtomAt(text, i) = "response_url"
           /\ AtomAt(text, j) = "="
           /\ AtomAt(text, k) = "\""
           /\ AtomAt(text, k + 1) = "https:"
           /\ e > k + 2
        THEN [from |-> k + 1, to |-> e - 1]
        ELSE [from |-> 0, to |-> 0]

RECURSIVE re_search(_, _)
\* re.search: the leftmost match at or after position i
re_search(text, i) ==
    IF i > Len(text) THEN [from |-> 0, to |-> 0]
    ELSE IF MatchAt(text, i).from # 0 THEN MatchAt(text, i)
    ELSE re_search(text, i + 1)

\* str.replace('\\', '')
StripBackslashes(text) == SelectSeq(text, LAMBDA a : a # "\\")

\* the exception class _extract_auth_ticket_url raises
ExtractFailureKind == "RuntimeError"

\* GarminClient._extract_auth_ticket_url: the ticket URL, or the RuntimeError
_extract_auth_ticket_url(auth_response) ==
    LET match == re_search(auth_response, 1)
    IN  IF match.from = 0
        THEN [raised |-> ExtractFailureKind,
              message |-> "auth failure: unable to extract auth ticket URL",
              url |-> <<>>]
        ELSE [raised |-> "none", message |-> "",
              url |-> StripBackslashes(SubSeq(auth_response, match.from, match.to))]

----------------------------------------------------------------------------
(* json.loads on the JSON texts the model uses: null, [], {} and an object  *)
(* of one member; a string is the three atoms quote, characters, quote      *)

JsonPunctuation == {"{", "}", "[", "]", ":", ",", "\"", "null"}

RECURSIVE ParseValue(_, _)
\* the value that starts at position i and the position after it
ParseValue(text, i) ==
    LET a == AtomAt(text, i)
        fail == [ok |-> FALSE, value |-> None, next |-> i]
    IN  IF a = "null" THEN [ok |-> TRUE, value |-> None, next |-> i + 1]
        ELSE IF a = "[" /\ AtomAt(text, i + 1) = "]"
        THEN [ok |-> TRUE, value |-> [type |-> "list", items |-> <<>>], next |-> i + 2]
        ELSE IF a = "{" /\ AtomAt(text, i + 1) = "}"
        THEN [ok |-> TRUE, value |-> [type |-> "dict", items |-> <<>>], next |-> i + 2]
        ELSE IF /\ a = "{"
                /\ AtomAt(text, i + 1) = "\""
                /\ AtomAt(text, i + 2) \notin JsonPunctuation \cup {""}
                /\ AtomAt(text, i + 3) = "\""
                /\ AtomAt(text, i + 4) = ":"
        THEN LET member == ParseValue(text, i + 5)
             IN  IF member.ok /\ AtomAt(text, member.next) = "}"
                 THEN [ok |-> TRUE,
                       value |-> [type |-> "dict",
                                  items |-> << <<text[i + 2], member.value>> >>],
                       next |-> member.next + 1]
                 ELSE fail
        ELSE fail

\* json.loads(text): the decoded value, or the JSONDecodeError
json_loads(text) ==
    LET parsed == ParseValue(text, 1)
    IN  IF parsed.ok /\ parsed.next = Len(text) + 1
        THEN [raised |-> "none", value |-> parsed.value]
        ELSE [raised |-> "JSONDecodeError", value |-> None]

----------------------------------------------------------------------------
(* HTTP through a requests.Session: requests, responses, cookies, logging *)

\* one HTTP request issued on session object sid
Request(method, url, query, params, data, sid) ==
    [method |-> method, url |-> url, query |-> query, params |-> params,
     data |-> data, sid |-> sid]

\* one record handed to the module's logger
LogRecord(level, msg, text, url, code) ==
    [level |-> level, msg |-> msg, text |-> text, url |-> url, code |-> code]

\* the cookie jar of a session after it received a response: a response that
\* arrived stores its cookie whatever its status, a transport error stores none
SetCookies(cookies, response, name) ==
    IF ~response.raised /\ response.set_cookie THEN cookies \cup {name} ELSE cookies

\* what a call leaves behind: the exception raised ("none" when it returned),
\* its message, the value returned, the requests issued, the log records and
\* the cookie jar of the session it used
Outcome(raised, message, value, reqs, logs, cookies) ==
    [raised |-> raised, message |-> message, value |-> value, reqs |-> reqs,
     logs |-> logs, cookies |-> cookies]

Message(fmt, url, code, text) == [fmt |-> fmt, url |-> url, code |-> code, text |-> text]

NoMessage == Message("", <<>>, 0, <<>>)

----------------------------------------------------------------------------
(* GarminClient._authenticate *)

\* a login check that lets every status through
login_failed_unchecked(auth_response) == FALSE

\* `if auth_response.status_code != 200`
login_failed(auth_response) == auth_response.status_code # HTTP_OK

\* `if response.status_code != 200`
ticket_failed(response) == response.status_code # HTTP_OK

\* a warm-up GET whose status is checked like the two before it
legacy_raises_on_status(legacy) == legacy.raised \/ legacy.status_code # HTTP_OK

\* the warm-up GET: its response is dropped, only a transport error raises
legacy_raises(legacy) == legacy.raised

\* the exception classes of the three raise statements of the handshake
LoginFailureKind == "ValueError"

TicketFailureKind == "RuntimeError"

\* a first log record that shows the submitted form
authenticating_log_with_form(form_data) ==
    <<LogRecord("info", "authenticating user ...",
                <<form_data[1][2], form_data[2][2]>>, <<>>, 0)>>

\* log.info('authenticating user ...')
authenticating_log(form_data) ==
    <<LogRecord("info", "authenticating user ...", <<>>, <<>>, 0)>>

_authenticate(sid, user, pw, auth_response, response, legacy) ==
    LET form_data == << <<"username", user>>, <<"password", pw>>,
                        <<"embed", "false">> >>
        request_params == << <<"service", "https://connect.garmin.com/modern">> >>
        post == Request("POST", SSO_LOGIN_URL, <<>>, request_params, form_data, sid)
        logs1 == authenticating_log(form_data)
        cookies1 == SetCookies({}, auth_response, "sso")
        logs2 == Append(logs1, LogRecord("debug", "got auth response: %s",
                                         auth_response.text, <<>>, 0))
        extracted == _extract_auth_ticket_url(auth_response.text)
        auth_ticket_url == extracted.url
        logs3 == logs2 \o
                 <<LogRecord("debug", "auth ticket url: \"%s\"", <<>>, auth_ticket_url, 0),
                   LogRecord("info", "claiming auth ticket ...", <<>>, <<>>, 0)>>
        claim == Request("GET", auth_ticket_url, <<>>, <<>>, <<>>, sid)
        cookies2 == SetCookies(cookies1, response, "ticket")
        warmup == Request("GET", LEGACY_SESSION_URL, <<>>, <<>>, <<>>, sid)
        cookies3 == SetCookies(cookies2, legacy, "legacy")
    IN  IF auth_response.raised
        THEN Outcome("ConnectionError", NoMessage, None, <<post>>, logs1, cookies1)
        ELSE IF login_failed(auth_response)
        THEN Outcome(LoginFailureKind,
                     Message("authentication failure: did you enter valid credentials?",
                             <<>>, 0, <<>>),
                     None, <<post>>, logs2, cookies1)
        ELSE IF extracted.raised # "none"
        THEN Outcome(extracted.raised, Message(extracted.message, <<>>, 0, <<>>),
                     None, <<post>>, logs2, cookies1)
        ELSE IF response.raised
        THEN Outcome("ConnectionError", NoMessage, None, <<post, claim>>, logs3, cookies2)
        ELSE IF ticket_failed(response)
        THEN Outcome(TicketFailureKind,
                     Message("auth failure: failed to claim auth ticket: %s: %d\n%s",
                             auth_ticket_url, response.status_code, response.text),
                     None, <<post, claim>>, logs3, cookies2)
        ELSE IF legacy_raises(legacy)
        THEN Outcome("ConnectionError", NoMessage, None, <<post, claim, warmup>>,
                     logs3, cookies3)
        ELSE Outcome("none", NoMessage, None, <<post, claim, warmup>>, logs3, cookies3)

----------------------------------------------------------------------------
(* The fetch operations *)

\* a guard that lets every call through
require_session_unchecked(sess) == TRUE

\* require_session: `if not client_object.session` does not hold
require_session(sess) == sess # NoSession

NotConnected ==
    Outcome("Exception",
            Message("Attempt to use GarminClient without being connected.", <<>>, 0, <<>>),
            None, <<>>, <<>>, {})

\* a get_weight whose default start counts back from the clock, not from end
get_weight_query_from_now(start, end, now) ==
    LET end1 == IF ~end.given THEN now ELSE end
        start1 == IF ~start.given THEN MinusDays(now, 30) ELSE start
    IN  urlencode(<< <<"_", <<EpochSeconds(now)>> >>,
                     <<"startDate", strftime(start1)>>,
                     <<"endDate", strftime(end1)>> >>)

\* the query parameters of get_weight, urlencoded
get_weight_query(start, end, now) ==
    LET end1 == IF ~end.given THEN now ELSE end
        start1 == IF ~start.given THEN MinusDays(end1, 30) ELSE start
    IN  urlencode(<< <<"_", <<EpochSeconds(now)>> >>,
                     <<"startDate", strftime(start1)>>,
                     <<"endDate", strftime(end1)>> >>)

RECURSIVE AppendMetrics(_, _)
\* `for metric in [...]: url += '&metricId={}'.format(metric)`
AppendMetrics(query, metrics) ==
    IF metrics = <<>> THEN query
    ELSE AppendMetrics(Append(query, Param("metricId", <<Head(metrics)>>)), Tail(metrics))

\* a get_calories that puts the metric ids in the encoded parameter map
get_calories_query_metrics_in_map(start, end, now) ==
    LET q0 == << <<"_", <<EpochSeconds(now)>> >>, <<"metricId", <<23>> >>,
                 <<"metricId", <<41>> >>, <<"metricId", <<42>> >> >>
        q1 == IF start.given THEN Append(q0, <<"fromDate", strftime(start)>>) ELSE q0
        q2 == IF end.given THEN Append(q1, <<"untilDate", strftime(end)>>) ELSE q1
    IN  urlencode(q2)

\* the query string of get_calories
get_calories_query(start, end, now) ==
    LET q0 == << <<"_", <<EpochSeconds(now)>> >> >>
        q1 == IF start.given THEN Append(q0, <<"fromDate", strftime(start)>>) ELSE q0
        q2 == IF end.given THEN Append(q1, <<"untilDate", strftime(end)>>) ELSE q1
    IN  AppendMetrics(urlencode(q2), <<23, 41, 42>>)

\* self.session.get when self.session is None
NoneHasNoGet ==
    Outcome("AttributeError", NoMessage, None, <<>>, <<>>, {})

\* the cookie jar of session object sess
CookiesOf(sess, objs) == objs[sess].cookies

\* a fetch that raises on a status other than 200
FetchResultRaising(request, response, cookies) ==
    IF response.raised
    THEN Outcome("ConnectionError", NoMessage, None, <<request>>, <<>>, cookies)
    ELSE IF response.status_code # HTTP_OK
    THEN Outcome("RuntimeError", NoMessage, None, <<request>>, <<>>,
                 SetCookies(cookies, response, "data"))
    ELSE Outcome(json_loads(response.text).raised, NoMessage,
                 json_loads(response.text).value, <<request>>, <<>>,
                 SetCookies(cookies, response, "data"))

\* a fetch that sends its request a second time after a status other than 200
FetchResultRetrying(request, response, cookies) ==
    IF response.raised
    THEN Outcome("ConnectionError", NoMessage, None, <<request>>, <<>>, cookies)
    ELSE IF response.status_code # HTTP_OK
    THEN Outcome("none", NoMessage, None, <<request, request>>,
                 <<LogRecord("error", "failed to fetch json summary: code={} text={}",
                             response.text, <<>>, response.status_code)>>,
                 SetCookies(cookies, response, "data"))
    ELSE Outcome(json_loads(response.text).raised, NoMessage,
                 json_loads(response.text).value, <<request>>, <<>>,
                 SetCookies(cookies, response, "data"))

\* what a fetch makes of the response to its request
FetchResult(request, response, cookies) ==
    IF response.raised
    THEN Outcome("ConnectionError", NoMessage, None, <<request>>, <<>>, cookies)
    ELSE IF response.status_code # HTTP_OK
    THEN Outcome("none", NoMessage, None, <<request>>,
                 <<LogRecord("error", "failed to fetch json summary: code={} text={}",
                             response.text, <<>>, response.status_code)>>,
                 SetCookies(cookies, response, "data"))
    ELSE Outcome(json_loads(response.text).raised, NoMessage,
                 json_loads(response.text).value, <<request>>, <<>>,
                 SetCookies(cookies, response, "data"))

----------------------------------------------------------------------------
(* Inputs: constructor arguments, responses of the service, dates, the clock *)

Usernames == {"my.sample@sample.com"}

Passwords == {"secretpassword"}

\* a response that arrived
Response(status_code, text, set_cookie) ==
    [raised |-> FALSE, status_code |-> status_code, text |-> text, set_cookie |-> set_cookie]

\* the transport raised instead of delivering a response
TransportError == [raised |-> TRUE, status_code |-> 0, text |-> <<>>, set_cookie |-> FALSE]

\* the place of a response the call never asked for
NotRequested == [raised |-> FALSE, status_code |-> 0, text |-> <<>>, set_cookie |-> FALSE]

\* bodies of the SSO login response: with an escaped ticket URL, with a plain
\* one, and without a response_url assignment
EscapedUrlBody ==
    <<"response_url", " ", "=", " ", "\"", "https:", "\\", "/", "x?ticket=ABC", "\"", ";">>

PlainUrlBody == <<"response_url", "=", "\"", "https:", "//x/y?ticket=ABC", "\"">>

NoUrlBody == <<"<html>", "</html>">>

LoginResponses ==
    { TransportError,
      Response(401, NoUrlBody, TRUE),
      Response(500, EscapedUrlBody, FALSE),
      Response(200, NoUrlBody, FALSE),
      Response(200, EscapedUrlBody, TRUE),
      Response(200, PlainUrlBody, FALSE) }

TicketResponses ==
    { TransportError,
      Response(500, <<"error">>, FALSE),
      Response(200, <<"ok">>, TRUE) }

LegacyResponses ==
    { TransportError,
      Response(404, <<"gone">>, FALSE),
      Response(500, <<"error">>, TRUE),
      Response(200, <<"ok">>, TRUE) }

\* responses of the data endpoints: JSON texts, a 200 that is no JSON, failures
DataResponses ==
    { TransportError,
      Response(200, <<"{", "\"", "dateWeightList", "\"", ":", "[", "]", "}">>, FALSE),
      Response(200, <<"[", "]">>, TRUE),
      Response(200, <<"<html>", "</html>">>, FALSE),
      Response(404, <<"not found">>, FALSE),
      Response(500, <<"error">>, FALSE) }

\* the start/end arguments and the clock readings of the lifecycle specification
Starts == {Absent, At(59, 0)}
Ends == {Absent, At(439, 43200)}
Clock == {At(374, 86399)}

----------------------------------------------------------------------------
(* State *)

Call(op, out, sid, inp) ==
    [op |-> op, raised |-> out.raised, message |-> out.message, value |-> out.value,
     reqs |-> out.reqs, logs |-> out.logs, sid |-> sid, inp |-> inp]

NoInput == [none |-> TRUE]

Init ==
    /\ username \in Usernames
    /\ password \in Passwords
    /\ session = NoSession
    /\ sessions = <<>>
    /\ scope = "outside"
    /\ lifecycle = "Uninitialized"
    /\ last = Call("__init__", Outcome("none", NoMessage, None, <<>>, <<>>, {}),
                   NoSession, NoInput)

----------------------------------------------------------------------------
(* GarminClient.connect and GarminClient.disconnect *)

\* The session object self.session named has lost its only reference: it is
\* garbage, its cookie jar can no longer be read, and what stays known of it is
\* whether close() was called on it.
Unreferenced(sess, objs) ==
    IF sess # NoSession THEN [objs EXCEPT ![sess].cookies = {}] ELSE objs

\* a connect that keeps the session object the client already holds
SessionJarReused(sess, objs) ==
    IF sess # NoSession THEN objs[sess].cookies ELSE {}

\* requests.Session(): the cookie jar of the session object connect creates,
\* whatever self.session (sess) referred to before
SessionJar(sess, objs) == {}

\* connect, called as op: a new session object replaces self.session, then the
\* handshake runs on it; an exception of the handshake leaves the assignment
ConnectCall(op, auth_response, response, legacy) ==
    /\ Len(sessions) < MaxSessions
    /\ LET sid == Len(sessions) + 1
           auth == _authenticate(sid, username, password, auth_response, response, legacy)
       IN  /\ session' = sid
           /\ sessions' = Append(Unreferenced(session, sessions),
                                 [cookies |-> SessionJar(session, sessions) \cup auth.cookies,
                                  closed |-> FALSE])
           /\ lifecycle' = IF auth.raised = "none" THEN "Connected" ELSE "ConnectFailed"
           /\ last' = Call(op, auth, sid,
                           [auth_response |-> auth_response,
                            response |-> IF Len(auth.reqs) >= 2 THEN response
                                         ELSE NotRequested,
                            legacy |-> IF Len(auth.reqs) >= 3 THEN legacy
                                       ELSE NotRequested])
    /\ UNCHANGED <<username, password>>

connect(auth_response, response, legacy) ==
    /\ ConnectCall("connect", auth_response, response, legacy)
    /\ UNCHANGED scope

\* a disconnect that closes self.session without testing it: None has no close
disconnect_session_unguarded(sess, objs) ==
    IF sess # NoSession
    THEN [raised |-> "none", session |-> NoSession,
          sessions |-> Unreferenced(sess, [objs EXCEPT ![sess].closed = TRUE])]
    ELSE [raised |-> "AttributeError", session |-> sess, sessions |-> objs]

\* the body of disconnect: the exception raised, self.session and the session
\* objects afterwards
disconnect_session(sess, objs) ==
    IF sess # NoSession
    THEN [raised |-> "none", session |-> NoSession,
          sessions |-> Unreferenced(sess, [objs EXCEPT ![sess].closed = TRUE])]
    ELSE [raised |-> "none", session |-> sess, sessions |-> objs]

DisconnectCall(op, inp) ==
    /\ session' = disconnect_session(session, sessions).session
    /\ sessions' = disconnect_session(session, sessions).sessions
    /\ lifecycle' = IF lifecycle = "Uninitialized" THEN "Uninitialized" ELSE "Disconnected"
    /\ last' = Call(op, Outcome(disconnect_session(session, sessions).raised, NoMessage,
                                None, <<>>, <<>>, {}), session, inp)
    /\ UNCHANGED <<username, password>>

disconnect ==
    /\ DisconnectCall("disconnect", NoInput)
    /\ UNCHANGED scope

----------------------------------------------------------------------------
(* The context-manager protocol *)

\* __enter__: connect; when connect raises, the with-block is not entered and
\* __exit__ is not called
__enter__(auth_response, response, legacy) ==
    /\ scope = "outside"
    /\ ConnectCall("__enter__", auth_response, response, legacy)
    /\ scope' = IF last'.raised = "none" THEN "inside" ELSE "outside"

\* an __exit__ that disconnects only when the block completed
__exit__on_success(exc) ==
    /\ scope = "inside"
    /\ IF exc
       THEN /\ last' = Call("__exit__", Outcome("none", NoMessage, None, <<>>, <<>>, {}),
                            session, [exc |-> exc])
            /\ UNCHANGED <<username, password, session, sessions, lifecycle>>
       ELSE DisconnectCall("__exit__", [exc |-> exc])
    /\ scope' = "outside"

\* __exit__: the block completed (exc = FALSE) or raised (exc = TRUE)
__exit__(exc) ==
    /\ scope = "inside"
    /\ DisconnectCall("__exit__", [exc |-> exc])
    /\ scope' = "outside"

----------------------------------------------------------------------------
(* GarminClient.get_weight and GarminClient.get_calories *)

FetchCall(op, out, start, end, now, response) ==
    /\ last' = Call(op, out, session,
                    [start |-> start, end |-> end, now |-> now,
                     response |-> IF out.reqs # <<>> THEN response ELSE NotRequested])
    /\ sessions' = IF session # NoSession /\ out.reqs # <<>>
                   THEN [sessions EXCEPT ![session].cookies = out.cookies]
                   ELSE sessions
    /\ UNCHANGED <<username, password, session, scope, lifecycle>>

get_weight(start, end, now, response) ==
    LET request == Request("GET", WEIGHT_DATE_RANGE_URL, get_weight_query(start, end, now),
                           <<>>, <<>>, session)
        out == IF ~require_session(session) THEN NotConnected
               ELSE IF session = NoSession THEN NoneHasNoGet
               ELSE FetchResult(request, response, CookiesOf(session, sessions))
    IN  FetchCall("get_weight", out, start, end, now, response)

get_calories(start, end, now, response) ==
    LET request == Request("GET", WELLNESS_URL(username),
                           get_calories_query(start, end, now), <<>>, <<>>, session)
        out == IF ~require_session(session) THEN NotConnected
               ELSE IF session = NoSession THEN NoneHasNoGet
               ELSE FetchResult(request, response, CookiesOf(session, sessions))
    IN  FetchCall("get_calories", out, start, end, now, response)

----------------------------------------------------------------------------
(* The lifecycle specification *)

Next ==
    \/ \E a \in LoginResponses, r \in TicketResponses, l \in LegacyResponses :
          connect(a, r, l)
    \/ disconnect
    \/ \E a \in LoginResponses, r \in TicketResponses, l \in LegacyResponses :
          __enter__(a, r, l)
    \/ \E exc \in BOOLEAN : __exit__(exc)
    \/ \E start \in Starts, end \in Ends, now \in Clock, response \in DataResponses :
          get_weight(start, end, now, response)
    \/ \E start \in Starts, end \in Ends, now \in Clock, response \in DataResponses :
          get_calories(start, end, now, response)

Spec == Init /\ [][Next]_vars

----------------------------------------------------------------------------
(* The fetch specification: a client that connected successfully, and the   *)
(* two fetch operations over a wider range of dates and clock readings      *)

QueryDates == {At(59, 0), At(374, 43200), At(424, 86399), At(455, 1)}

QueryClock == {At(30, 5), At(425, 86399), At(730, 0)}

InitQuery ==
    LET a == Response(200, EscapedUrlBody, TRUE)
        r == Response(200, <<"ok">>, TRUE)
        l == Response(200, <<"ok">>, TRUE)
    IN  /\ username \in Usernames
        /\ password \in Passwords
        /\ session = 1
        /\ sessions = <<[cookies |-> _authenticate(1, username, password, a, r, l).cookies,
                         closed |-> FALSE]>>
        /\ scope = "outside"
        /\ lifecycle = "Connected"
        /\ last = Call("connect", _authenticate(1, username, password, a, r, l), 1,
                       [auth_response |-> a, response |-> r, legacy |-> l])

NextQuery ==
    \/ \E start \in QueryDates \cup {Absent}, end \in QueryDates \cup {Absent},
          now \in QueryClock, response \in DataResponses :
          get_weight(start, end, now, response)
    \/ \E start \in QueryDates \cup {Absent}, end \in QueryDates \cup {Absent},
          now \in QueryClock, response \in DataResponses :
          get_calories(start, end, now, response)

SpecQuery == InitQuery /\ [][NextQuery]_vars

----------------------------------------------------------------------------
(* The extraction specification: one connect of a new client, the login     *)
(* answered 200 with every body made of a head and a tail of up to MaxTail  *)
(* atoms                                                                    *)

\* how a body may start: an assignment up to its "=", with and without spaces,
\* after other text, without "=", and no assignment at all
BodyHeads ==
    { <<"response_url", "=">>,
      <<"response_url", " ", "=", "\n">>,
      <<"<script>", "response_url", "\t", "=">>,
      <<"response_url">>,
      <<>> }

TailAtoms == {"\"", "https:", "\\", "/x"}

Tails == UNION {[1..k -> TailAtoms] : k \in 0..MaxTail}

\* the text made of the atoms of head followed by those of tail
Joined(head, tail) ==
    [i \in 1..(Len(head) + Len(tail)) |->
        IF i <= Len(head) THEN head[i] ELSE tail[i - Len(head)]]

NextExtract ==
    /\ sessions = <<>>
    /\ \E head \in BodyHeads, tail \in Tails, response \in TicketResponses :
          connect(Response(200, Joined(head, tail), FALSE), response,
                  Response(200, <<"ok">>, TRUE))

SpecExtract == Init /\ [][NextExtract]_vars

----------------------------------------------------------------------------
(* Properties *)

IsFetch(op) == op \in {"get_weight", "get_calories"}

IsConnect(op) == op \in {"connect", "__enter__"}

\* a fetch was rejected by the connection guard before any network I/O
Rejected ==
    /\ last.raised = "Exception"
    /\ last.message.fmt = "Attempt to use GarminClient without being connected."
    /\ last.reqs = <<>>

\* the login response arrived with a status other than 200
LoginNon200 ==
    /\ IsConnect(last.op)
    /\ ~last.inp.auth_response.raised
    /\ last.inp.auth_response.status_code # 200

\* C1: after a connect that failed in authentication the client holds no live
\* session: a following get_weight or get_calories is rejected as not connected
\* and issues no HTTP request.
C1_FetchAfterFailedConnectRejected ==
    (lifecycle = "ConnectFailed" /\ IsFetch(last.op)) => Rejected

\* C2: on a client that was never connected or has been disconnected, get_weight
\* and get_calories fail with the not-connected error, whatever their arguments,
\* and issue no HTTP request.
C2_FetchWithoutSessionRejected ==
    (lifecycle \in {"Uninitialized", "Disconnected"} /\ IsFetch(last.op)) =>
        /\ Rejected
        /\ last.value = None
        /\ last.logs = <<>>

C2_Witness ==
    /\ lifecycle = "Disconnected"
    /\ last.op = "get_calories"
    /\ last.inp.start.given
    /\ Rejected
    /\ \E i \in 1..Len(sessions) : sessions[i].closed

\* C3: when the login POST returns a status other than 200, connect fails with
\* the authentication error and the client's session holds no cookie afterwards.
C3_FailedLoginLeavesNoCookies ==
    LoginNon200 =>
        /\ last.raised = LoginFailureKind
        /\ session # NoSession => sessions[session].cookies = {}

\* the ticket URL each login body of the model announces (<<>>: it has none)
AnnouncedUrl(body) ==
    IF body = EscapedUrlBody THEN <<"https:", "/", "x?ticket=ABC">>
    ELSE IF body = PlainUrlBody THEN <<"https:", "//x/y?ticket=ABC">>
    ELSE <<>>

\* the login response arrived with status 200 and announces a ticket URL
LoginGaveTicket ==
    /\ IsConnect(last.op)
    /\ ~last.inp.auth_response.raised
    /\ last.inp.auth_response.status_code = 200
    /\ AnnouncedUrl(last.inp.auth_response.text) # <<>>

\* the ticket GET was answered with status 200
TicketClaimed ==
    /\ LoginGaveTicket
    /\ ~last.inp.response.raised
    /\ last.inp.response.status_code = 200

\* C4: one connect issues its handshake requests in the order login POST, ticket
\* GET, warm-up GET, each at most once; the ticket GET only after a 200 login
\* response with a ticket URL, the warm-up GET only after a 200 ticket response;
\* a failed step is the last request of that connect.
C4_HandshakeOrder ==
    IsConnect(last.op) =>
        LET reqs == last.reqs
            n == Len(reqs)
        IN  /\ n \in 1..3
            /\ reqs[1].method = "POST" /\ reqs[1].url = SSO_LOGIN_URL
            /\ n >= 2 =>
                 /\ LoginGaveTicket
                 /\ reqs[2].method = "GET"
                 /\ reqs[2].url = AnnouncedUrl(last.inp.auth_response.text)
            /\ n >= 3 =>
                 /\ TicketClaimed
                 /\ reqs[3].method = "GET" /\ reqs[3].url = LEGACY_SESSION_URL
            /\ ~LoginGaveTicket => (n = 1 /\ last.raised # "none")
            /\ (LoginGaveTicket /\ ~TicketClaimed) => (n = 2 /\ last.raised # "none")
            /\ \A i \in 1..n : reqs[i].sid = last.sid

C4_Witness ==
    /\ last.op = "connect"
    /\ Len(last.reqs) = 2
    /\ last.inp.response.status_code = 500
    /\ last.raised = TicketFailureKind

\* C5 as stated: once the login POST and the ticket GET both returned 200,
\* connect succeeds whatever the outcome of the warm-up GET.
C5_WarmupNeverFailsConnect ==
    TicketClaimed => (last.raised = "none" /\ lifecycle = "Connected")

\* C5 as amended: once the login POST and the ticket GET both returned 200,
\* connect succeeds whatever the HTTP status of the warm-up response; only a
\* transport error raised by the warm-up GET makes connect fail.
C5_WarmupStatusIgnored ==
    TicketClaimed =>
        /\ Len(last.reqs) = 3
        /\ ~last.inp.legacy.raised =>
             (last.raised = "none" /\ lifecycle = "Connected" /\ session = last.sid)
        /\ last.inp.legacy.raised =>
             (last.raised = "ConnectionError" /\ lifecycle = "ConnectFailed")

C5_Witness ==
    /\ TicketClaimed
    /\ last.inp.legacy.status_code = 500
    /\ last.raised = "none"
    /\ lifecycle = "Connected"

\* C6: a non-200 login POST and a non-200 ticket GET fail with the same kind of
\* error, and a 200 login response without a response_url assignment fails with
\* another kind than a failed ticket claim.
C6_ErrorKinds ==
    /\ LoginNon200 => last.raised = LoginFailureKind
    /\ (LoginGaveTicket /\ ~last.inp.response.raised /\ ~TicketClaimed) =>
           last.raised = LoginFailureKind
    /\ (/\ IsConnect(last.op)
        /\ ~last.inp.auth_response.raised
        /\ last.inp.auth_response.status_code = 200
        /\ AnnouncedUrl(last.inp.auth_response.text) = <<>>) =>
           last.raised \notin {"none", TicketFailureKind}

\* the value each JSON body of the model denotes
Denoted(text) ==
    IF text = <<"[", "]">> THEN [type |-> "list", items |-> <<>>]
    ELSE [type |-> "dict",
          items |-> << <<"dateWeightList", [type |-> "list", items |-> <<>>]>> >>]

JsonBodies == { <<"[", "]">>, <<"{", "\"", "dateWeightList", "\"", ":", "[", "]", "}">> }

\* the last call was a fetch on a Connected client whose request was answered
FetchAnswered ==
    /\ IsFetch(last.op)
    /\ lifecycle = "Connected"
    /\ ~last.inp.response.raised

\* C7: on a Connected client a fetch never raises because of the response
\* status: a non-200 response gives None with the status and the body logged, a
\* 200 response gives the decoded JSON body (only a body that is no JSON makes
\* the decoder raise), and the client is still Connected afterwards.
C7_FetchStatusHandling ==
    FetchAnswered =>
        LET response == last.inp.response
        IN  /\ Len(last.reqs) = 1
            /\ response.status_code # 200 =>
                 /\ last.raised = "none"
                 /\ last.value = None
                 /\ Len(last.logs) = 1
                 /\ last.logs[1].level = "error"
                 /\ last.logs[1].code = response.status_code
                 /\ last.logs[1].text = response.text
            /\ (response.status_code = 200 /\ response.text \in JsonBodies) =>
                 /\ last.raised = "none"
                 /\ last.value = Denoted(response.text)
                 /\ last.logs = <<>>
            /\ last.raised # "none" =>
                 (response.status_code = 200 /\ response.text \notin JsonBodies)
            /\ session = last.sid
            /\ session # NoSession
            /\ ~sessions[session].closed

C7_Witness ==
    /\ FetchAnswered
    /\ last.op = "get_weight"
    /\ last.inp.response.status_code = 404
    /\ last.value = None
    /\ last.raised = "none"

\* C8: leaving a with-block, by completing it or by an exception raised in it,
\* runs disconnect: the session the client held is closed, self.session is
\* cleared, and the client is Disconnected, so the guard rejects later fetches.
C8_ScopeExitDisconnects ==
    last.op = "__exit__" =>
        /\ session = NoSession
        /\ ~require_session(session)
        /\ last.sid # NoSession => sessions[last.sid].closed
        /\ lifecycle = "Disconnected"
        /\ scope = "outside"
        /\ last.raised = "none"
        /\ last.reqs = <<>>

C8_Witness ==
    /\ last.op = "__exit__"
    /\ last.inp.exc
    /\ last.sid # NoSession
    /\ sessions[last.sid].closed
    /\ session = NoSession

\* the keys of a query string and the positions of a key in it
Keys(q) == {q[i].key : i \in 1..Len(q)}

Positions(q, k) == {i \in 1..Len(q) : q[i].key = k}

\* the value of the one parameter k of q
ValueOf(q, k) == q[CHOOSE i \in Positions(q, k) : TRUE].value

\* the day ordinal (days since 2023-01-01) a written date <<y, m, d>> names,
\* counted from the lengths of the months before it
DaysBeforeMonth == <<0, 31, 59, 90, 120, 151, 181, 212, 243, 273, 304, 334>>

OrdinalOf(ymd) ==
    LET y == ymd[1]
        m == ymd[2]
        d == ymd[3]
    IN  (y - 2023) * 365 + Cardinality({k \in 2023..(y - 1) : IsLeap(k)})
        + DaysBeforeMonth[m] + (IF m > 2 /\ IsLeap(y) THEN 1 ELSE 0) + (d - 1)

\* <<y, m, d>> is a date of the calendar
IsDate(ymd) ==
    /\ Len(ymd) = 3
    /\ ymd[2] \in 1..12
    /\ ymd[3] \in 1..DaysInMonth(ymd[1], ymd[2])

\* the last call was a fetch that issued its request
FetchIssued(op) == last.op = op /\ Len(last.reqs) = 1

\* C9: the get_calories query string holds fromDate iff start was supplied and
\* untilDate iff end was supplied, always holds the parameter _, and ends with
\* exactly the three parameters metricId=23, metricId=41, metricId=42 in that
\* order, after all other parameters.
C9_CaloriesQuery ==
    FetchIssued("get_calories") =>
        LET q == last.reqs[1].query
            n == Len(q)
            start == last.inp.start
            end == last.inp.end
        IN  /\ last.reqs[1].url = WELLNESS_URL(username)
            /\ ("fromDate" \in Keys(q)) <=> start.given
            /\ ("untilDate" \in Keys(q)) <=> end.given
            /\ Cardinality(Positions(q, "_")) = 1
            /\ start.given =>
                 /\ Cardinality(Positions(q, "fromDate")) = 1
                 /\ IsDate(ValueOf(q, "fromDate"))
                 /\ OrdinalOf(ValueOf(q, "fromDate")) = start.ord
            /\ end.given =>
                 /\ Cardinality(Positions(q, "untilDate")) = 1
                 /\ IsDate(ValueOf(q, "untilDate"))
                 /\ OrdinalOf(ValueOf(q, "untilDate")) = end.ord
            /\ Keys(q) \subseteq {"_", "fromDate", "untilDate", "metricId"}
            /\ n >= 4
            /\ Positions(q, "metricId") = {n - 2, n - 1, n}
            /\ q[n - 2].value = <<23>>
            /\ q[n - 1].value = <<41>>
            /\ q[n].value = <<42>>

C9_Witness ==
    /\ FetchIssued("get_calories")
    /\ last.inp.start.given
    /\ ~last.inp.end.given
    /\ Len(last.reqs[1].query) = 5
    /\ last.reqs[1].query[2] = Param("fromDate", <<2024, 2, 29>>)

\* C10: get_weight always sends startDate and endDate; endDate is the date of
\* the supplied end, or of the clock when end is absent; startDate is the date
\* of the supplied start, or the date exactly 30 days before the end date used
\* when start is absent. Dates carry no time of day.
C10_WeightQuery ==
    FetchIssued("get_weight") =>
        LET q == last.reqs[1].query
            start == last.inp.start
            end == last.inp.end
            endUsed == IF end.given THEN end.ord ELSE last.inp.now.ord
        IN  /\ last.reqs[1].url = WEIGHT_DATE_RANGE_URL
            /\ Len(q) = 3
            /\ Keys(q) = {"_", "startDate", "endDate"}
            /\ IsDate(ValueOf(q, "startDate"))
            /\ IsDate(ValueOf(q, "endDate"))
            /\ OrdinalOf(ValueOf(q, "endDate")) = endUsed
            /\ start.given => OrdinalOf(ValueOf(q, "startDate")) = start.ord
            /\ ~start.given =>
                 OrdinalOf(ValueOf(q, "endDate")) - OrdinalOf(ValueOf(q, "startDate")) = 30

C10_Witness ==
    /\ FetchIssued("get_weight")
    /\ ~last.inp.start.given
    /\ ~last.inp.end.given
    /\ last.inp.now.tod # 0
    /\ ValueOf(last.reqs[1].query, "endDate") = <<2024, 3, 1>>
    /\ ValueOf(last.reqs[1].query, "startDate") = <<2024, 1, 31>>

\* every atom of text strictly between positions i and j is a space
SpacesBetween(text, i, j) == \A n \in (i + 1)..(j - 1) : text[n] \in {" ", "\n", "\t"}

\* the positions of the opening quote of an assignment `response_url = "`
OpeningQuotes(text) ==
    {k \in 1..Len(text) :
        \E i \in 1..Len(text), j \in 1..Len(text) :
            /\ i < j /\ j < k
            /\ text[i] = "response_url" /\ text[j] = "=" /\ text[k] = "\""
            /\ SpacesBetween(text, i, j) /\ SpacesBetween(text, j, k)}

\* the text holds `response_url =`, whatever follows
HasAssignment(text) ==
    \E i \in 1..Len(text), j \in 1..Len(text) :
        i < j /\ text[i] = "response_url" /\ text[j] = "=" /\ SpacesBetween(text, i, j)

RECURSIVE ClosingQuote(_, _)
\* the quote that closes the string literal read from position n on: a backslash
\* escapes the atom after it; 0 when the literal is not closed
ClosingQuote(text, n) ==
    IF n > Len(text) THEN 0
    ELSE IF text[n] = "\\" THEN ClosingQuote(text, n + 2)
    ELSE IF text[n] = "\"" THEN n
    ELSE ClosingQuote(text, n + 1)

RECURSIVE WithoutBackslashes(_)
WithoutBackslashes(text) ==
    IF text = <<>> THEN <<>>
    ELSE IF Head(text) = "\\" THEN WithoutBackslashes(Tail(text))
    ELSE <<Head(text)>> \o WithoutBackslashes(Tail(text))

\* the text assigns a quoted https URL to response_url: the positions of the
\* URL inside the quotes
QuotedUrl(text) ==
    LET k == CHOOSE q \in OpeningQuotes(text) : \A p \in OpeningQuotes(text) : q <= p
        e == ClosingQuote(text, k + 1)
    IN  IF OpeningQuotes(text) # {} /\ AtomAt(text, k + 1) = "https:" /\ e > k + 2
        THEN [found |-> TRUE, from |-> k + 1, to |-> e - 1]
        ELSE [found |-> FALSE, from |-> 0, to |-> 0]

\* a connect whose login response arrived with status 200: the extractor ran
ExtractorRan ==
    /\ IsConnect(last.op)
    /\ ~last.inp.auth_response.raised
    /\ last.inp.auth_response.status_code = 200

\* C11: for a login body that assigns a quoted URL to response_url the extractor
\* returns that URL with its backslashes removed and otherwise unchanged (the
\* ticket GET goes to it); for a body without a response_url assignment the
\* extraction fails with its error and no ticket GET is issued.
C11_ExtractsQuotedUrl ==
    ExtractorRan =>
        LET text == last.inp.auth_response.text
            quoted == QuotedUrl(text)
        IN  /\ quoted.found =>
                 /\ Len(last.reqs) >= 2
                 /\ last.reqs[2].url =
                        WithoutBackslashes(SubSeq(text, quoted.from, quoted.to))
                 /\ \A n \in 1..Len(last.reqs[2].url) : last.reqs[2].url[n] # "\\"
            /\ ~HasAssignment(text) =>
                 /\ last.raised = ExtractFailureKind
                 /\ last.message.fmt = "auth failure: unable to extract auth ticket URL"
                 /\ Len(last.reqs) = 1

\* the atoms of a text
Atoms(text) == {text[n] : n \in 1..Len(text)}

\* the strings of a sequence of key/value pairs
PairStrings(pairs) == UNION {{pairs[n][1], pairs[n][2]} : n \in 1..Len(pairs)}

\* the request is the login POST carrying the password in its form body
IsLoginPost(request) ==
    /\ request.method = "POST"
    /\ request.url = SSO_LOGIN_URL
    /\ Len(request.data) = 3
    /\ request.data[2] = <<"password", password>>
    /\ password \notin {request.data[1][2], request.data[3][2]}

\* the password shows nowhere in what the last call logged, raised or requested,
\* except in the form body of the login POST
PasswordConfined ==
    /\ \A n \in 1..Len(last.logs) :
          /\ last.logs[n].msg # password
          /\ password \notin Atoms(last.logs[n].text) \cup Atoms(last.logs[n].url)
    /\ last.message.fmt # password
    /\ password \notin Atoms(last.message.text) \cup Atoms(last.message.url)
    /\ \A n \in 1..Len(last.reqs) :
          LET request == last.reqs[n]
          IN  /\ password \notin Atoms(request.url) \cup PairStrings(request.params)
              /\ password \notin Keys(request.query)
              /\ password \in PairStrings(request.data) => (n = 1 /\ IsLoginPost(request))

\* C12: over any sequence of connect, fetch and disconnect calls the password
\* appears only in the form body of the login POST, in no log record and in no
\* other request, and no call changes the stored username or password.
C12_PasswordNeverLogged ==
    [][PasswordConfined' /\ username' = username /\ password' = password]_vars

C12_Witness ==
    /\ last.op = "connect"
    /\ Len(last.reqs) = 3
    /\ IsLoginPost(last.reqs[1])
    /\ Len(last.logs) = 4
    /\ PasswordConfined

\* the requests of the last call are pairwise different
NoRequestRepeated ==
    \A m \in 1..Len(last.reqs), n \in 1..Len(last.reqs) :
        m # n => last.reqs[m] # last.reqs[n]

\* C13: a get_weight or get_calories call on a Connected client issues exactly
\* one HTTP GET whatever the response (no retry after a non-200 status or a
\* transport error), and a connect that failed issued each handshake request at
\* most once.
C13_OneRequestPerFetch ==
    /\ (IsFetch(last.op) /\ lifecycle = "Connected") =>
          /\ Len(last.reqs) = 1
          /\ last.reqs[1].method = "GET"
          /\ last.reqs[1].sid = session
          /\ last.reqs[1].url = IF last.op = "get_weight" THEN WEIGHT_DATE_RANGE_URL
                                ELSE WELLNESS_URL(username)
    /\ (IsConnect(last.op) /\ last.raised # "none") =>
          /\ Len(last.reqs) <= 3
          /\ NoRequestRepeated
          /\ Cardinality({n \in 1..Len(last.reqs) : last.reqs[n].method = "POST"}) = 1

C13_Witness ==
    /\ last.op = "get_calories"
    /\ lifecycle = "Connected"
    /\ ~last.inp.response.raised
    /\ last.inp.response.status_code = 500
    /\ Len(last.reqs) = 1

IsDisconnect(op) == op \in {"disconnect", "__exit__"}

\* C14: disconnect is safe in every lifecycle state and idempotent: it never
\* raises and does no network I/O or logging, it leaves the client without a
\* session, on a client that holds no session (never connected, or already
\* disconnected) it changes nothing, and a disconnect that follows a disconnect
\* changes nothing.
C14_DisconnectIdempotent ==
    [][IsDisconnect(last'.op) =>
          /\ last'.raised = "none"
          /\ last'.reqs = <<>>
          /\ last'.logs = <<>>
          /\ session' = NoSession
          /\ session # NoSession => sessions'[session].closed
          /\ session = NoSession => (sessions' = sessions /\ lifecycle' = lifecycle)
          /\ IsDisconnect(last.op) =>
                (session' = session /\ sessions' = sessions /\ lifecycle' = lifecycle)
      ]_vars

C14_Witness ==
    /\ last.op = "disconnect"
    /\ last.sid = NoSession
    /\ last.raised = "none"
    /\ lifecycle = "Disconnected"
    /\ session = NoSession
    /\ \E n \in 1..Len(sessions) : sessions[n].closed

\* the cookies the responses of one connect delivered
HandshakeCookies(inp) ==
    (IF inp.auth_response.set_cookie THEN {"sso"} ELSE {}) \cup
    (IF inp.response.set_cookie THEN {"ticket"} ELSE {}) \cup
    (IF inp.legacy.set_cookie THEN {"legacy"} ELSE {})

\* C15: every connect runs its handshake on a new, open session object whose
\* cookie jar holds afterwards exactly the cookies this connect's own responses
\* set (none carried over from the session of an earlier connect or from the
\* fetches made on it), whatever state the client was in; a fetch stays on the
\* session of the last connect and adds at most the cookie of its own response.
C15_ConnectOnFreshSession ==
    [][/\ IsConnect(last'.op) =>
             /\ session' = Len(sessions) + 1
             /\ Len(sessions') = Len(sessions) + 1
             /\ ~sessions'[session'].closed
             /\ sessions'[session'].cookies = HandshakeCookies(last'.inp)
       /\ (IsFetch(last'.op) /\ session # NoSession) =>
             /\ session' = session
             /\ sessions'[session].cookies \subseteq sessions[session].cookies \cup {"data"}
      ]_vars

\* a second connect on a client whose first session was never disconnected,
\* answered without a login cookie
C15_Witness ==
    /\ IsConnect(last.op)
    /\ last.sid = 2
    /\ session = 2
    /\ ~sessions[1].closed
    /\ last.raised = "none"
    /\ ~last.inp.auth_response.set_cookie
    /\ "sso" \notin sessions[2].cookies

\* C16: in with-statement use no session object that connect created is left
\* open once the scope is left: the session held when __exit__ ran is closed,
\* and so is the session of an __enter__ whose connect raised (the scope is
\* left at once, the block never runs).
C16_ScopedSessionsClosed ==
    /\ (last.op = "__exit__" /\ last.sid # NoSession) => sessions[last.sid].closed
    /\ (last.op = "__enter__" /\ last.raised # "none") =>
          /\ scope = "outside"
          /\ sessions[last.sid].closed

====
